---- MODULE Spec2Model ----
(***************************************************************************)
(* Model of hpo_term.py: mapping of HPO terms to the system-level          *)
(* categories (direct children of HP:0000118).                             *)
(*                                                                         *)
(* A Python str is a sequence of one-character strings, so that strip,     *)
(* lower, split, zfill, join and the identifier pattern are computed on    *)
(* characters.  Python's None is the value None below.                     *)
(***************************************************************************)
EXTENDS Integers, Sequences, FiniteSets, TLC

\* ---------------------------------------------------------------- bounds
\* Number of nodes other than HP:0000118 in the ontology graph.
MaxNodes == 2
\* Number of lines of the input file.
MaxLines == 1

\* ------------------------------------------------------------ characters
None == <<"<None>">>

Upper == <<"A","B","C","D","E","F","G","H","I","J","K","L","M",
           "N","O","P","Q","R","S","T","U","V","W","X","Y","Z">>
Lowers == <<"a","b","c","d","e","f","g","h","i","j","k","l","m",
            "n","o","p","q","r","s","t","u","v","w","x","y","z">>
Digits == <<"0","1","2","3","4","5","6","7","8","9">>

\* The characters of the model in code point order.
Ascii == <<"\t", "\n", " ", ",">> \o Digits \o <<":">> \o Upper \o Lowers \o <<"|">>

Range(s) == {s[i] : i \in DOMAIN s}

CodeOf == [c \in Range(Ascii) |-> CHOOSE i \in DOMAIN Ascii : Ascii[i] = c]

Code(c) == CodeOf[c]

Whitespace == {"\t", "\n", " "}

IsDigit(c) == c \in Range(Digits)

\* str.lower() on one character
LowerOf ==
  [c \in Range(Ascii) |->
     IF c \in Range(Upper) THEN Lowers[CHOOSE i \in DOMAIN Upper : Upper[i] = c] ELSE c]

LowerChar(c) == LowerOf[c]

\* str.lower()
Lower(s) == [i \in DOMAIN s |-> LowerChar(s[i])]

\* Python's s1 < s2 on str: lexicographic by code point
RECURSIVE StrLess(_, _)
StrLess(s1, s2) ==
  IF s2 = <<>> THEN FALSE
  ELSE IF s1 = <<>> THEN TRUE
  ELSE IF s1[1] # s2[1] THEN Code(s1[1]) < Code(s2[1])
  ELSE StrLess(Tail(s1), Tail(s2))

\* str.strip()
RECURSIVE LStrip(_)
LStrip(s) == IF s # <<>> /\ s[1] \in Whitespace THEN LStrip(Tail(s)) ELSE s

RECURSIVE RStrip(_)
RStrip(s) ==
  IF s # <<>> /\ s[Len(s)] \in Whitespace THEN RStrip(SubSeq(s, 1, Len(s) - 1)) ELSE s

Strip(s) == RStrip(LStrip(s))

\* str.split(sep) for a one-character separator
RECURSIVE Split(_, _)
Split(s, sep) ==
  IF \A i \in DOMAIN s : s[i] # sep THEN <<s>>
  ELSE LET k == CHOOSE i \in DOMAIN s : s[i] = sep /\ \A j \in 1..(i - 1) : s[j] # sep
       IN  <<SubSeq(s, 1, k - 1)>> \o Split(SubSeq(s, k + 1, Len(s)), sep)

\* str.zfill(width) on a string without a sign
RECURSIVE ZFill(_, _)
ZFill(s, width) == IF Len(s) >= width THEN s ELSE ZFill(<<"0">> \o s, width)

\* sep.join(parts)
RECURSIVE Join(_, _)
Join(parts, sep) ==
  IF parts = <<>> THEN <<>>
  ELSE IF Len(parts) = 1 THEN parts[1]
  ELSE parts[1] \o <<sep>> \o Join(Tail(parts), sep)

\* ----------------------------------------------------------------- graph
\* A graph G is [nodes |-> the node identifiers in node-iteration order,
\*               name  |-> node -> its "name" attribute, None when it has none,
\*               edges |-> the set of edges <<child, parent, key>>].

Chars(n) == <<Digits[n + 1]>>

PHENOTYPIC_ABN == <<"H","P",":","0","0","0","0","1","1","8">>

\* The identifiers of the other nodes: HP:0000001, HP:0000002, ...
NodeId(n) == <<"H","P",":","0","0","0","0","0","0">> \o Chars(n)

Others == {NodeId(n) : n \in 1..MaxNodes}

NodeSet(g) == Range(g.nodes)

\* node in G
InGraph(g, node) == node \in NodeSet(g)

\* G.in_edges(node, keys=True)
InEdges(g, node) == {e \in g.edges : e[2] = node}

\* The nodes with an edge into one of the nodes of S.
Preds(g, S) == {e[1] : e \in {x \in g.edges : x[2] \in S}}

RECURSIVE PredClosure(_, _)
PredClosure(g, S) ==
  LET T == S \cup Preds(g, S) IN IF T = S THEN S ELSE PredClosure(g, T)

\* nx.ancestors(G, node): all nodes having a path to node in G.
NxAncestors(g, node) == PredClosure(g, {node}) \ {node}

\* ------------------------------------------------------- build_name_index
DictSet(d, k, v) == [x \in (DOMAIN d) \cup {k} |-> IF x = k THEN v ELSE d[x]]

\* name_to_id.get(k, k): a missing key falls back to the key itself.
DictGet_default(d, k) == IF k \in DOMAIN d THEN d[k] ELSE k

\* name_to_id.get(k)
DictGet(d, k) == IF k \in DOMAIN d THEN d[k] ELSE None

\* An iteration that keeps the entry a name already has (setdefault).
IndexStep_first(acc, node, name) ==
  IF name # None /\ name # <<>> /\ Lower(name) \notin DOMAIN acc
  THEN DictSet(acc, Lower(name), node)
  ELSE acc

\* One iteration of the loop of build_name_index.
IndexStep(acc, node, name) ==
  IF name # None /\ name # <<>> THEN DictSet(acc, Lower(name), node) ELSE acc

RECURSIVE IndexFrom(_, _, _)
IndexFrom(g, k, acc) ==
  IF k > Len(g.nodes) THEN acc
  ELSE IndexFrom(g, k + 1, IndexStep(acc, g.nodes[k], g.name[g.nodes[k]]))

build_name_index(g) == IndexFrom(g, 1, <<>>)

\* ------------------------------------------------------- get_system_roots
\* restrict_to is [isNone |-> BOOLEAN, ids |-> a set of identifiers].
NoRestrict == [isNone |-> TRUE, ids |-> {}]

\* get_system_roots without its check of the root.
RootMissing_never(g) == FALSE

\* "if PHENOTYPIC_ABN not in G: raise ValueError"
RootMissing(g) == ~InGraph(g, PHENOTYPIC_ABN)

children(g) == {e[1] : e \in InEdges(g, PHENOTYPIC_ABN)}

\* Truth value of restrict_to: None and the empty set are false.
Truthy(restrict_to) == ~restrict_to.isNone /\ restrict_to.ids # {}

\* "if restrict_to and cid not in restrict_to: continue"
Skipped(restrict_to, cid) == Truthy(restrict_to) /\ cid \notin restrict_to.ids

KeptChildren(g, restrict_to) == {cid \in children(g) : ~Skipped(restrict_to, cid)}

\* G.nodes[cid].get("name", "")
NameOrEmpty(g, cid) == IF g.name[cid] = None THEN <<>> ELSE g.name[cid]

\* The orders in which "for cid in children" can visit a set: a set of str
\* iterates in hash order, which differs from one run to the next.
Orders(S) == {o \in [1..Cardinality(S) -> S] : \A x \in S : \E j \in DOMAIN o : o[j] = x}

\* The dict built by visiting the kept children in order o, as the sequence
\* of its items <<id, name>> in insertion order.
SystemsDict(g, o) == [j \in DOMAIN o |-> <<o[j], NameOrEmpty(g, o[j])>>]

Keys(systems) == {systems[j][1] : j \in DOMAIN systems}

\* ---------------------------------------------------- resolve_input_to_id
\* Digits required by the pattern ^HP:\d{7}$ and width given to zfill.
IdDigits == 7
ZFillWidth == 7

\* The pattern matched without re.IGNORECASE.
MatchesId_cs(t) ==
  LET n == 3 + IdDigits
  IN  /\ Len(t) = n
      /\ t[1] = "H"
      /\ t[2] = "P"
      /\ t[3] = ":"
      /\ \A j \in 4..n : IsDigit(t[j])

\* re.match(r"^HP:\d{7}$", t, re.IGNORECASE); $ also matches before a
\* newline that ends the string.
MatchesId(t) ==
  LET n == 3 + IdDigits
  IN  /\ \/ Len(t) = n
         \/ Len(t) = n + 1 /\ t[n + 1] = "\n"
      /\ LowerChar(t[1]) = "h"
      /\ LowerChar(t[2]) = "p"
      /\ t[3] = ":"
      /\ \A j \in 4..n : IsDigit(t[j])

resolve_input_to_id(term, name_to_id) ==
  LET t == Strip(term)
  IN  IF t = <<>> THEN None
      ELSE IF MatchesId(t) THEN <<"H","P",":">> \o ZFill(Split(t, ":")[2], ZFillWidth)
      ELSE DictGet(name_to_id, Lower(t))

\* ---------------------------------------------------- map_term_to_systems
ancestors(g, node) == IF ~InGraph(g, node) THEN {} ELSE NxAncestors(g, node)

\* "sid in ancs or sid == node_id"
IsHit(sid, ancs, node_id) == sid \in ancs \/ sid = node_id

\* The sort key "x[1].lower()"
SortKey(x) == Lower(x[2])

\* list.sort(key=...) is stable: x goes after every element whose key is
\* not greater than its own.
InsertByKey(sorted, x) ==
  LET before == {j \in DOMAIN sorted : ~StrLess(SortKey(x), SortKey(sorted[j]))}
      p == Cardinality(before)
  IN  SubSeq(sorted, 1, p) \o <<x>> \o SubSeq(sorted, p + 1, Len(sorted))

RECURSIVE SortFrom(_, _, _)
SortFrom(hits, k, sorted) ==
  IF k > Len(hits) THEN sorted ELSE SortFrom(hits, k + 1, InsertByKey(sorted, hits[k]))

SortHits(hits) == SortFrom(hits, 1, <<>>)

map_term_to_systems(g, systems, node_id) ==
  IF ~InGraph(g, node_id) THEN <<>>
  ELSE LET ancs == ancestors(g, node_id)
           Hit(x) == IsHit(x[1], ancs, node_id)
       IN  SortHits(SelectSeq(systems, Hit))

\* ------------------------------------------------------------ read_inputs
\* "[line.strip() for line in f if line.strip()]" (column is None)
RECURSIVE read_inputs(_)
read_inputs(lines) ==
  IF lines = <<>> THEN <<>>
  ELSE (IF Strip(Head(lines)) # <<>> THEN <<Strip(Head(lines))>> ELSE <<>>)
       \o read_inputs(Tail(lines))

\* ------------------------------------------------------------------- main
\* The value itself, without "or ''".
OrEmpty_identity(v) == v

\* "resolved_id or ''", "resolved_name or ''"
OrEmpty(v) == IF v = None THEN <<>> ELSE v

\* "G.nodes[resolved_id]["name"]" raises KeyError on a node without a name.
NameLookupFails(g, rid) == rid # None /\ rid # <<>> /\ InGraph(g, rid) /\ g.name[rid] = None

\* "G.nodes[resolved_id]["name"] if resolved_id and resolved_id in G else None"
ResolvedName(g, rid) ==
  IF rid # None /\ rid # <<>> /\ InGraph(g, rid) THEN g.name[rid] ELSE None

\* "map_term_to_systems(G, system_roots, resolved_id) if resolved_id else []"
SystemsOf(g, roots, rid) ==
  IF rid # None /\ rid # <<>> THEN map_term_to_systems(g, roots, rid) ELSE <<>>

Firsts(sys) == [j \in DOMAIN sys |-> sys[j][1]]
Seconds(sys) == [j \in DOMAIN sys |-> sys[j][2]]

\* "'|'.join([...]) if systems else ''"
JoinedIds(sys) == IF sys # <<>> THEN Join(Firsts(sys), "|") ELSE <<>>
JoinedNames(sys) == IF sys # <<>> THEN Join(Seconds(sys), "|") ELSE <<>>

\* The dict appended to results.
MakeRow(raw, rid, rname, sys) ==
  [input              |-> raw,
   resolved_hpo_id    |-> OrEmpty(rid),
   resolved_hpo_name  |-> OrEmpty(rname),
   system_level_ids   |-> JoinedIds(sys),
   system_level_names |-> JoinedNames(sys)]

\* write_output
fieldnames == <<"input", "resolved_hpo_id", "resolved_hpo_name",
                "system_level_ids", "system_level_names">>

\* csv.DictWriter.writerow: the values of the row in the order of fieldnames,
\* a missing key written as the empty string.
WriteRow(r) ==
  [j \in DOMAIN fieldnames |->
     IF fieldnames[j] \in DOMAIN r THEN r[fieldnames[j]] ELSE <<>>]

\* The rows of the written file: the header, then one row per result.
write_output(rows) == <<fieldnames>> \o [j \in DOMAIN rows |-> WriteRow(rows[j])]

\* "set([x.strip() for x in args.restrict_ids.split(',') if x.strip()])",
\* taken only when args.restrict_ids is neither None nor empty.
ParseRestrict(arg) ==
  IF arg = None \/ arg = <<>> THEN NoRestrict
  ELSE LET parts == Split(arg, ",")
       IN  [isNone |-> FALSE,
            ids |-> {Strip(parts[j]) : j \in {k \in DOMAIN parts : Strip(parts[k]) # <<>>}}]

VARIABLES
  G,             \* the ontology graph
  restrict_ids,  \* args.restrict_ids
  name_to_id,    \* the name index
  restrict,      \* the allow-list
  system_roots,  \* the items of the dict of system roots, in insertion order
  inputs,        \* the list read_inputs returned, None before it is read
  done,          \* number of inputs the loop has processed
  resolved_id,   \* locals of the last iteration of the loop
  systems,
  results,       \* the output rows
  out,           \* the rows of the written file, <<>> while nothing is written
  pc,            \* position in main
  err,           \* the exception that ended the run, None if none
  term,          \* argument and result of a call of resolve_input_to_id
  ret

vars == <<G, restrict_ids, name_to_id, restrict, system_roots, inputs, done,
          resolved_id, systems, results, out, pc, err, term, ret>>

\* ----------------------------------------------------- the graphs explored
NodeNames == {None, <<"a">>, <<"B">>}
RootName == <<"A">>

OtherSeq == [n \in 1..MaxNodes |-> NodeId(n)]

\* Edges lead from a node to the root or to a node of smaller identifier, so
\* every graph is acyclic; HP:0000001 may reach the root by a second edge,
\* parallel to its is_a edge.
InnerEdges == {e \in Others \X Others \X {"is_a"} : StrLess(e[2], e[1])}

ParallelEdge == <<NodeId(1), PHENOTYPIC_ABN, "part_of">>

RootEdges == {<<x, PHENOTYPIC_ABN, "is_a">> : x \in Others} \cup {ParallelEdge}

CandEdges(hasRoot) == IF hasRoot THEN InnerEdges \cup RootEdges ELSE InnerEdges

EdgeSets(hasRoot) ==
  {E \in SUBSET CandEdges(hasRoot) :
     ParallelEdge \in E => <<NodeId(1), PHENOTYPIC_ABN, "is_a">> \in E}

MkGraph(order, nm, E) ==
  [nodes |-> order,
   name  |-> [x \in Range(order) |-> IF x = PHENOTYPIC_ABN THEN RootName ELSE nm[x]],
   edges |-> E]

Graphs ==
  {MkGraph(OtherSeq \o (IF p[1] THEN <<PHENOTYPIC_ABN>> ELSE <<>>), p[2], p[3]) :
     p \in {q \in BOOLEAN \X [Others -> NodeNames] \X EdgeSets(TRUE) :
              q[3] \in EdgeSets(q[1])}}

RestrictArgs ==
  {None,
   <<",">>,
   <<"H","P",":","0","0","0","0","0","0","1"," ",",">>}

\* The lines an input file may hold.
RawLines ==
  {<<>>,
   <<"a">>,
   <<" ","b">>,
   <<"h","p",":","0","0","0","0","0","0","2","\n">>,
   <<"H","P",":","0","0","0","0","0","0","9">>}

RECURSIVE SeqsUpTo(_, _)
SeqsUpTo(S, n) ==
  IF n = 0 THEN {<<>>}
  ELSE LET shorter == SeqsUpTo(S, n - 1)
       IN  shorter \cup {Append(q, x) : q \in {y \in shorter : Len(y) = n - 1}, x \in S}

InitWith(graphs, args) ==
  /\ G \in graphs
  /\ restrict_ids \in args
  /\ name_to_id = <<>>
  /\ restrict = NoRestrict
  /\ system_roots = <<>>
  /\ inputs = None
  /\ done = 0
  /\ resolved_id = None
  /\ systems = <<>>
  /\ results = <<>>
  /\ out = <<>>
  /\ pc = "start"
  /\ err = None
  /\ term = None
  /\ ret = None

Init == InitWith(Graphs, RestrictArgs)

\* main line 163
BuildNameIndex ==
  /\ pc = "start"
  /\ name_to_id' = build_name_index(G)
  /\ pc' = "args"
  /\ UNCHANGED <<G, restrict_ids, restrict, system_roots, inputs, done,
                 resolved_id, systems, results, out, err, term, ret>>

\* main lines 165-167
ParseArgs ==
  /\ pc = "args"
  /\ restrict' = ParseRestrict(restrict_ids)
  /\ pc' = "roots"
  /\ UNCHANGED <<G, restrict_ids, name_to_id, system_roots, inputs, done,
                 resolved_id, systems, results, out, err, term, ret>>

\* main line 169, get_system_roots raising ValueError
RootNotFound ==
  /\ pc = "roots"
  /\ RootMissing(G)
  /\ pc' = "aborted"
  /\ err' = <<"ValueError">>
  /\ UNCHANGED <<G, restrict_ids, name_to_id, restrict, system_roots, inputs, done,
                 resolved_id, systems, results, out, term, ret>>

\* main line 169, get_system_roots returning
GetSystemRoots ==
  /\ pc = "roots"
  /\ ~RootMissing(G)
  /\ \E o \in Orders(KeptChildren(G, restrict)) : system_roots' = SystemsDict(G, o)
  /\ pc' = "read"
  /\ UNCHANGED <<G, restrict_ids, name_to_id, restrict, inputs, done,
                 resolved_id, systems, results, out, err, term, ret>>

\* main line 171
ReadInputs ==
  /\ pc = "read"
  /\ \E lines \in SeqsUpTo(RawLines, MaxLines) : inputs' = read_inputs(lines)
  /\ pc' = "loop"
  /\ UNCHANGED <<G, restrict_ids, name_to_id, restrict, system_roots, done,
                 resolved_id, systems, results, out, err, term, ret>>

\* main lines 174-188: one iteration of the loop
ProcessRow ==
  /\ pc = "loop"
  /\ done < Len(inputs)
  /\ LET raw == inputs[done + 1]
         rid == resolve_input_to_id(raw, name_to_id)
     IN  /\ ~NameLookupFails(G, rid)
         /\ resolved_id' = rid
         /\ systems' = SystemsOf(G, system_roots, rid)
         /\ results' = Append(results, MakeRow(raw, rid, ResolvedName(G, rid), systems'))
  /\ done' = done + 1
  /\ UNCHANGED <<G, restrict_ids, name_to_id, restrict, system_roots, inputs,
                 out, pc, err, term, ret>>

\* main line 176 raising KeyError: the resolved node has no "name"
RowKeyError ==
  /\ pc = "loop"
  /\ done < Len(inputs)
  /\ LET rid == resolve_input_to_id(inputs[done + 1], name_to_id)
     IN  /\ NameLookupFails(G, rid)
         /\ resolved_id' = rid
  /\ pc' = "aborted"
  /\ err' = <<"KeyError">>
  /\ UNCHANGED <<G, restrict_ids, name_to_id, restrict, system_roots, inputs, done,
                 systems, results, out, term, ret>>

\* main line 190
WriteOutput ==
  /\ pc = "loop"
  /\ done = Len(inputs)
  /\ out' = write_output(results)
  /\ pc' = "done"
  /\ UNCHANGED <<G, restrict_ids, name_to_id, restrict, system_roots, inputs, done,
                 resolved_id, systems, results, err, term, ret>>

Next ==
  \/ BuildNameIndex
  \/ ParseArgs
  \/ RootNotFound
  \/ GetSystemRoots
  \/ ReadInputs
  \/ ProcessRow
  \/ RowKeyError
  \/ WriteOutput

Spec == Init /\ [][Next]_vars

\* ------------------------------------------- build_name_index on its own
\* Graphs in every node-iteration order, with names that collide with and
\* without a difference of case, an empty name included.
IndexNames == {None, <<>>, <<"a">>, <<"A">>, <<"B">>}

IndexGraphs ==
  {MkGraph(p[1], p[2], {}) :
     p \in (Orders(Others) \cup Orders(Others \cup {PHENOTYPIC_ABN})) \X [Others -> IndexNames]}

InitIndex == InitWith(IndexGraphs, {None})

NextIndex == BuildNameIndex

SpecIndex == InitIndex /\ [][NextIndex]_vars

\* ---------------------------------------- resolve_input_to_id on its own
ResolveGraphs ==
  {MkGraph(OtherSeq \o p[1], p[2], {}) :
     p \in {<<>>, <<PHENOTYPIC_ABN>>} \X [Others -> NodeNames]}

RawStrings ==
  {<<>>,
   <<" ", "\t">>,
   <<"h","p",":","0","0","0","1","6","2","6">>,
   <<"H","P",":","0","0","0","1","6","2","6">>,
   <<" ","H","p",":","0","0","0","0","0","0","1","\n">>,
   <<"h","P",":","0","0","0","0","0","0","9">>,
   <<"H","P",":","0","0","0","0","0","1">>,
   <<"H","P",":","0","0","0","0","0","0","1","2">>,
   <<"H","P",":","0","0","0","0","0","0","a">>,
   <<"H","P",":","0","0","0"," ","0","0","1">>,
   <<"H","B",":","0","0","0","0","0","0","1">>,
   <<"H","P","0","0","0","0","0","0","1",":">>,
   <<"a">>,
   <<"A">>,
   <<"\t","b"," ">>,
   <<"B","\n">>,
   <<"a"," ","B">>,
   <<"z">>}

InitResolve == InitWith(ResolveGraphs, {None})

\* A call resolve_input_to_id(raw, name_to_id) on the index that was built.
ResolveCall ==
  /\ pc = "args"
  /\ \E raw \in RawStrings :
       /\ term' = raw
       /\ ret' = resolve_input_to_id(raw, name_to_id)
  /\ UNCHANGED <<G, restrict_ids, name_to_id, restrict, system_roots, inputs, done,
                 resolved_id, systems, results, out, pc, err>>

NextResolve ==
  \/ BuildNameIndex
  \/ ResolveCall

SpecResolve == InitResolve /\ [][NextResolve]_vars

\* ----------------------------------------------------------------- claims
\* The loop has completed at least one iteration and the run has not aborted:
\* resolved_id and systems are those of the row appended last.
RowDone == pc \in {"loop", "done"} /\ done > 0

LastRow == results[Len(results)]

\* The nodes with an edge from one of the nodes of S.
Succs(g, S) == {e[2] : e \in {x \in g.edges : x[1] \in S}}

RECURSIVE SuccClosure(_, _)
SuccClosure(g, S) ==
  LET T == S \cup Succs(g, S) IN IF T = S THEN S ELSE SuccClosure(g, T)

\* The generalizations of node: the nodes reached from it along one or more
\* child->parent edges.
Generalizations(g, node) == SuccClosure(g, {node}) \ {node}

\* The nodes with a direct child->parent edge into the root.
DirectChildren(g) ==
  {n \in NodeSet(g) : \E e \in g.edges : e[1] = n /\ e[2] = PHENOTYPIC_ABN}

\* t is s without its leading and trailing whitespace.
IsTrimOf(t, s) ==
  \E a \in 0..Len(s) : \E b \in 0..(Len(s) - a) :
     /\ t = SubSeq(s, a + 1, Len(s) - b)
     /\ \A j \in 1..a : s[j] \in Whitespace
     /\ \A j \in (Len(s) - b + 1)..Len(s) : s[j] \in Whitespace
     /\ t # <<>> => t[1] \notin Whitespace /\ t[Len(t)] \notin Whitespace

\* t is the prefix HP in any letter case, a colon and exactly seven digits.
IdShaped(t) ==
  /\ Len(t) = 10
  /\ t[1] \in {"H", "h"}
  /\ t[2] \in {"P", "p"}
  /\ t[3] = ":"
  /\ \A j \in 4..10 : t[j] \in Range(Digits)

\* The nodes whose name equals t ignoring case.
NamedLike(g, t) == {n \in NodeSet(g) : g.name[n] # None /\ Lower(g.name[n]) = Lower(t)}

\* Position of node n in the node-iteration order of g.
Pos(g, n) == CHOOSE j \in DOMAIN g.nodes : g.nodes[j] = n

\* C1: classifying a node N of the graph returns exactly the pairs
\* (S, name(S)) for the system roots S with S = N or S reachable from N along
\* one or more child->parent edges.
C1_ClassifiesToGeneralizations ==
  (RowDone /\ InGraph(G, resolved_id)) =>
     Range(systems) =
       {<<sid, NameOrEmpty(G, sid)>> :
          sid \in {x \in Keys(system_roots) :
                     x = resolved_id \/ x \in Generalizations(G, resolved_id)}}

\* C2: the list returned by map_term_to_systems is ascending by lowercased
\* name, and entries whose names are equal ignoring case are in ascending
\* identifier order.
C2_TotallyOrdered ==
  RowDone =>
     \A j \in DOMAIN systems : \A k \in DOMAIN systems :
        j < k =>
          \/ StrLess(Lower(systems[j][2]), Lower(systems[k][2]))
          \/ /\ Lower(systems[j][2]) = Lower(systems[k][2])
             /\ StrLess(systems[j][1], systems[k][1])

\* C3: classifying a system root R returns the one-element list (R, name(R)).
C3_SystemRootClassifiesToItself ==
  (RowDone /\ resolved_id \in Keys(system_roots)) =>
     systems = <<<<resolved_id, NameOrEmpty(G, resolved_id)>>>>

\* C4: the keys of get_system_roots are the direct children of the root when
\* no allow-list is supplied and their intersection with the allow-list when
\* one is supplied, the empty allow-list included.
C4_ExactlyAllowedChildren ==
  pc \in {"read", "loop", "done"} =>
     /\ Keys(system_roots) =
          IF restrict.isNone THEN DirectChildren(G)
          ELSE DirectChildren(G) \cap restrict.ids
     /\ Len(system_roots) = Cardinality(Keys(system_roots))
     /\ \A j \in DOMAIN system_roots :
          system_roots[j][2] = NameOrEmpty(G, system_roots[j][1])

\* C5: when the root is in the graph no row aborts the run, and the finished
\* run has one row per input, in input order, holding the raw input.
C5_OneRowPerInput ==
  InGraph(G, PHENOTYPIC_ABN) =>
     /\ pc # "aborted"
     /\ pc = "done" =>
          /\ Len(results) = Len(inputs)
          /\ \A j \in DOMAIN results : results[j].input = inputs[j]

\* C6: when the root is absent from the graph the run never gets past
\* get_system_roots, which fails with the root-not-found error: no input is
\* read or resolved, no row is produced and nothing is written.
C6_RootNotFoundAbortsFirst ==
  ~InGraph(G, PHENOTYPIC_ABN) =>
     /\ pc \in {"start", "args", "roots", "aborted"}
     /\ pc = "aborted" => err = <<"ValueError">>
     /\ pc # "aborted" => err = None
     /\ system_roots = <<>>
     /\ inputs = None
     /\ done = 0
     /\ resolved_id = None
     /\ results = <<>>
     /\ out = <<>>

C6_Witness ==
  /\ ~InGraph(G, PHENOTYPIC_ABN)
  /\ pc = "aborted"
  /\ err = <<"ValueError">>

\* C7: resolve_input_to_id trims the input; an empty result is unresolved; HP
\* in any letter case, a colon and seven digits give HP: and the same digits;
\* anything else is looked up by its lowercased form in the name index.
C7_ResolveContract ==
  term # None =>
     \A t \in {SubSeq(term, a, b) : a \in 1..(Len(term) + 1), b \in 0..Len(term)} :
        IsTrimOf(t, term) =>
          ret = IF t = <<>> THEN None
                ELSE IF IdShaped(t) THEN <<"H", "P", ":">> \o SubSeq(t, 4, 10)
                ELSE IF Lower(t) \in DOMAIN name_to_id THEN name_to_id[Lower(t)]
                ELSE None

C7_Witness ==
  /\ term = <<"h","p",":","0","0","0","1","6","2","6">>
  /\ ret = <<"H","P",":","0","0","0","1","6","2","6">>

\* C8 as stated: every resolved identifier, in the loop and in the rows, is
\* a node of the graph.
C8_ResolvedIsGraphNode ==
  /\ RowDone => (resolved_id = None \/ InGraph(G, resolved_id))
  /\ \A j \in DOMAIN results :
       results[j].resolved_hpo_id = <<>> \/ InGraph(G, results[j].resolved_hpo_id)

\* C8 as amended: a resolved identifier is the canonical form of an
\* identifier-shaped input, in the graph or not, or a graph node whose name
\* equals the input ignoring case; a row whose identifier is not a graph node
\* has an empty name and an empty classification; an input that is neither
\* identifier-shaped nor the name of a node gives a row of empty fields.
C8_ResolvedInGraphUnlessIdShaped ==
  \A j \in DOMAIN results :
     LET r == results[j] IN
       /\ IdShaped(r.input) => r.resolved_hpo_id = <<"H", "P", ":">> \o SubSeq(r.input, 4, 10)
       /\ (~IdShaped(r.input) /\ r.resolved_hpo_id # <<>>) =>
             r.resolved_hpo_id \in NamedLike(G, r.input)
       /\ (r.resolved_hpo_id # <<>> /\ ~InGraph(G, r.resolved_hpo_id)) =>
             /\ r.resolved_hpo_name = <<>>
             /\ r.system_level_ids = <<>>
             /\ r.system_level_names = <<>>
       /\ (~IdShaped(r.input) /\ NamedLike(G, r.input) = {}) =>
             /\ r.resolved_hpo_id = <<>>
             /\ r.resolved_hpo_name = <<>>
             /\ r.system_level_ids = <<>>
             /\ r.system_level_names = <<>>

C8_Witness ==
  /\ pc = "done"
  /\ Len(results) > 0
  /\ results[1].resolved_hpo_id = <<"H","P",":","0","0","0","0","0","0","9">>
  /\ ~InGraph(G, results[1].resolved_hpo_id)
  /\ results[1].resolved_hpo_name = <<>>
  /\ results[1].system_level_ids = <<>>

\* The parts of C9 that do not depend on the names of the fields: a written
\* row holds the five values of its record in order, no value is absent or
\* None, and the two classification fields split at '|' into the identifiers
\* and the names of the classification list, in its order.
C9_RowsWellFormed(names) ==
  /\ \A j \in DOMAIN results :
       /\ DOMAIN results[j] = Range(names)
       /\ \A f \in DOMAIN results[j] : results[j][f] # None
  /\ RowDone =>
       /\ LastRow.input = inputs[done]
       /\ LastRow.resolved_hpo_id = (IF resolved_id = None THEN <<>> ELSE resolved_id)
       /\ IF systems = <<>>
          THEN LastRow.system_level_ids = <<>> /\ LastRow.system_level_names = <<>>
          ELSE /\ Split(LastRow.system_level_ids, "|") = Firsts(systems)
               /\ Split(LastRow.system_level_names, "|") = Seconds(systems)
  /\ pc = "done" =>
       /\ Len(out) = Len(results) + 1
       /\ out[1] = names
       /\ \A j \in DOMAIN results :
            out[j + 1] = [k \in DOMAIN names |-> results[j][names[k]]]

\* C9 as stated: the fields are input, resolved_id, resolved_name,
\* system_level_ids, system_level_names, in that order.
C9_FieldsAsStated ==
  C9_RowsWellFormed(<<"input", "resolved_id", "resolved_name",
                      "system_level_ids", "system_level_names">>)

\* C9 as amended: the fields are input, resolved_hpo_id, resolved_hpo_name,
\* system_level_ids, system_level_names, in that order; the rest as stated.
C9_FieldsAsWritten ==
  C9_RowsWellFormed(<<"input", "resolved_hpo_id", "resolved_hpo_name",
                      "system_level_ids", "system_level_names">>)

C9_Witness ==
  /\ pc = "done"
  /\ Len(out) = 2
  /\ Len(systems) = 2
  /\ out[2][4] = systems[1][1] \o <<"|">> \o systems[2][1]

\* The name index has one key per lowercased non-empty name, and the entry
\* of a name is the node that pick(g, name) chooses among those carrying it.
IndexChooses(pick(_, _)) ==
  pc # "start" =>
     /\ DOMAIN name_to_id =
          {Lower(G.name[n]) : n \in {x \in NodeSet(G) : G.name[x] # None /\ G.name[x] # <<>>}}
     /\ \A k \in DOMAIN name_to_id : name_to_id[k] = pick(G, k)

FirstNamed(g, k) ==
  CHOOSE n \in NamedLike(g, k) : \A m \in NamedLike(g, k) : Pos(g, n) <= Pos(g, m)

LastNamed(g, k) ==
  CHOOSE n \in NamedLike(g, k) : \A m \in NamedLike(g, k) : Pos(g, n) >= Pos(g, m)

\* C10 as stated: among the nodes sharing a lowercased name the first in
\* node-iteration order is the entry.
C10_FirstEncounteredWins == IndexChooses(FirstNamed)

\* C10 as amended: among the nodes sharing a lowercased name the last in
\* node-iteration order is the entry (a later node replaces an earlier one).
C10_LastEncounteredWins == IndexChooses(LastNamed)

C10_Witness ==
  /\ pc # "start"
  /\ \E n \in NodeSet(G) : \E m \in NodeSet(G) :
        /\ G.name[n] = <<"a">>
        /\ G.name[m] = <<"A">>
        /\ Pos(G, n) < Pos(G, m)
        /\ name_to_id[<<"a">>] = m

====
